---------------------------- MODULE Spec2Model ----------------------------
(* fonts/x11-importer.py: conversion of X11 bitmap fonts into one TTF per *)
(* (family, style).  Strings are sequences of one-character strings, so   *)
(* that startswith, `in`, replace and sorted() are computed on the text.  *)
EXTENDS Integers, Sequences, FiniteSets, TLC

VARIABLES
    pc,           \* position of the run (which statement of main / which harness step)
    TEMP_DIR,     \* the global TEMP_DIR: None or the directory made by mkdtemp
    tempCreated,  \* number of mkdtemp calls so far
    tempRemoved,  \* number of shutil.rmtree(TEMP_DIR) calls so far
    tempFiles,    \* the .bdf files present in the scratch directory
    dpiIdx,       \* index into [75, 100] of collect_proportional_fonts' outer loop
    pending,      \* files of sorted(font_dir.glob("*.pcf.gz")) not yet visited
    filesSeen,    \* number of font files found on disk so far
    prop_groups,  \* main's prop_groups: (family, style) -> [(px, bdf_path)]
    misc_groups,  \* main's misc_groups
    all_groups,   \* main's all_groups
    queue,        \* keys of sorted(all_groups.items()) not yet visited
    attempted,    \* keys for which build_font has been called, in call order
    results,      \* main's results
    failed,       \* keys whose build_font call raised
    last,         \* what the last iteration of a collection loop did
    build,        \* build_font's locals at its last return or raise
    glyph,        \* one glyph of the font being built: width before / after rounding
    basename,     \* argument of classify_proportional
    result        \* value returned by classify_proportional

vars == << pc, TEMP_DIR, tempCreated, tempRemoved, tempFiles, dpiIdx, pending,
           filesSeen, prop_groups, misc_groups, all_groups, queue, attempted,
           results, failed, last, build, glyph, basename, result >>

\* ------------------------------------------------------------------ bounds
MaxFiles == 2     \* font files installed over all three directories
MaxPx == 2         \* largest PIXEL_SIZE value a header declares
MaxWidth == 160    \* glyph advance widths range over -MaxWidth..MaxWidth
MaxSuffix == 2     \* characters appended to a stem to form a basename

\* Python's None where a tuple is expected
None == << >>

\* ----------------------------------------------------------------- strings
X11Helv == <<"X","1","1","H","e","l","v">>
X11LuSans == <<"X","1","1","L","u","S","a","n","s">>
X11LuType == <<"X","1","1","L","u","T","y","p","e">>
X11Term == <<"X","1","1","T","e","r","m">>
X11Misc5x == <<"X","1","1","M","i","s","c","5","x">>
X11Misc6x == <<"X","1","1","M","i","s","c","6","x">>
X11Misc7x == <<"X","1","1","M","i","s","c","7","x">>
X11Misc8x == <<"X","1","1","M","i","s","c","8","x">>
X11Misc9x == <<"X","1","1","M","i","s","c","9","x">>
X11Misc10x == <<"X","1","1","M","i","s","c","1","0","x">>
X11Misc12x == <<"X","1","1","M","i","s","c","1","2","x">>
Regular == <<"R","e","g","u","l","a","r">>
Bold == <<"B","o","l","d">>
Oblique == <<"O","b","l","i","q","u","e">>
BoldOblique == <<"B","o","l","d","O","b","l","i","q","u","e">>

\* The characters that occur, in code point order.
AsciiOrder ==
    << "-", ".", "0", "1", "2", "3", "4", "5", "6", "7", "8", "9",
       "A", "B", "C", "D", "E", "F", "G", "H", "I", "J", "K", "L", "M",
       "N", "O", "P", "Q", "R", "S", "T", "U", "V", "W", "X", "Y", "Z", "_",
       "a", "b", "c", "d", "e", "f", "g", "h", "i", "j", "k", "l", "m",
       "n", "o", "p", "q", "r", "s", "t", "u", "v", "w", "x", "y", "z" >>

Ord(c) == CHOOSE i \in DOMAIN AsciiOrder : AsciiOrder[i] = c

\* str.__lt__: lexicographic by code point, a proper prefix is smaller.
RECURSIVE StrLess(_, _)
StrLess(a, b) ==
    IF b = <<>> THEN FALSE
    ELSE IF a = <<>> THEN TRUE
    ELSE IF Head(a) # Head(b) THEN Ord(Head(a)) < Ord(Head(b))
    ELSE StrLess(Tail(a), Tail(b))

\* str.startswith
StartsWith(s, prefix) ==
    /\ Len(prefix) <= Len(s)
    /\ SubSeq(s, 1, Len(prefix)) = prefix

\* `sub in s` for strings
RECURSIVE Contains(_, _)
Contains(s, sub) ==
    IF Len(s) < Len(sub) THEN FALSE
    ELSE IF StartsWith(s, sub) THEN TRUE
    ELSE Contains(Tail(s), sub)

\* str.replace(old, ''): every non-overlapping occurrence, left to right.
RECURSIVE RemoveAll(_, _)
RemoveAll(s, old) ==
    IF s = <<>> THEN <<>>
    ELSE IF StartsWith(s, old) THEN RemoveAll(SubSeq(s, Len(old) + 1, Len(s)), old)
    ELSE <<Head(s)>> \o RemoveAll(Tail(s), old)

PcfGz == <<".","p","c","f",".","g","z">>

\* pcf_path.name.replace('.pcf.gz', '')
Basename(file) == RemoveAll(file, PcfGz)

\* ------------------------------------------------------------------ tables
PROPORTIONAL ==
    << <<<<"h","e","l","v","R">>,         X11Helv,   Regular>>,
       <<<<"h","e","l","v","B">>,         X11Helv,   Bold>>,
       <<<<"h","e","l","v","O">>,         X11Helv,   Oblique>>,
       <<<<"h","e","l","v","B","O">>,     X11Helv,   BoldOblique>>,
       <<<<"l","u","R","S">>,             X11LuSans, Regular>>,
       <<<<"l","u","B","S">>,             X11LuSans, Bold>>,
       <<<<"l","u","I","S">>,             X11LuSans, Oblique>>,
       <<<<"l","u","B","I","S">>,         X11LuSans, BoldOblique>>,
       <<<<"l","u","b","R">>,             X11LuSans, Regular>>,
       <<<<"l","u","b","B">>,             X11LuSans, Bold>>,
       <<<<"l","u","b","I">>,             X11LuSans, Oblique>>,
       <<<<"l","u","b","B","I">>,         X11LuSans, BoldOblique>>,
       <<<<"l","u","t","R","S">>,         X11LuType, Regular>>,
       <<<<"l","u","t","B","S">>,         X11LuType, Bold>>,
       <<<<"t","e","r","m","B">>,         X11Term,   Bold>>,
       <<<<"t","e","r","m">>,             X11Term,   Regular>> >>

MISC_SKIP_PREFIXES ==
    << <<"c","l">>,
       <<"c","u">>,
       <<"o","l","g","l">>,
       <<"o","l">>,
       <<"n","i","l">>,
       <<"m","i","c","r","o">>,
       <<"d","e","c">>,
       <<"c","u","r","s","o","r">>,
       <<"a","r","a","b","i","c">>,
       <<"h","a","n","g","l">>,
       <<"j","i","s","k","a","n">>,
       <<"g","b">>,
       <<"k","1","4">>,
       <<"1","2","x","1","3","j","a">>,
       <<"1","8","x","1","8","j","a">>,
       <<"1","8","x","1","8","k","o">>,
       <<"1","2","x","2","4","r","k">>,
       <<"8","x","1","6","r","k">> >>

\* MISC_MAP with '6x13B' filed under the key of a proportional family.
MISC_MAP_Colliding ==
    << <<<<"4","x","6">>,           X11Misc5x,  Regular, 6>>,
       <<<<"5","x","7">>,           X11Misc5x,  Regular, 7>>,
       <<<<"5","x","8">>,           X11Misc5x,  Regular, 8>>,
       <<<<"6","x","9">>,           X11Misc6x,  Regular, 9>>,
       <<<<"6","x","1","0">>,       X11Misc6x,  Regular, 10>>,
       <<<<"6","x","1","2">>,       X11Misc6x,  Regular, 12>>,
       <<<<"6","x","1","3">>,       X11Misc6x,  Regular, 13>>,
       <<<<"6","x","1","3","B">>,   X11Helv,    Bold,    13>>,
       <<<<"6","x","1","3","O">>,   X11Misc6x,  Oblique, 13>>,
       <<<<"7","x","1","3">>,       X11Misc7x,  Regular, 13>>,
       <<<<"7","x","1","3","B">>,   X11Misc7x,  Bold,    13>>,
       <<<<"7","x","1","3","O">>,   X11Misc7x,  Oblique, 13>>,
       <<<<"7","x","1","4">>,       X11Misc7x,  Regular, 14>>,
       <<<<"7","x","1","4","B">>,   X11Misc7x,  Bold,    14>>,
       <<<<"8","x","1","3">>,       X11Misc8x,  Regular, 13>>,
       <<<<"8","x","1","3","B">>,   X11Misc8x,  Bold,    13>>,
       <<<<"8","x","1","3","O">>,   X11Misc8x,  Oblique, 13>>,
       <<<<"8","x","1","6">>,       X11Misc8x,  Regular, 16>>,
       <<<<"9","x","1","5">>,       X11Misc9x,  Regular, 15>>,
       <<<<"9","x","1","5","B">>,   X11Misc9x,  Bold,    15>>,
       <<<<"9","x","1","8">>,       X11Misc9x,  Regular, 18>>,
       <<<<"9","x","1","8","B">>,   X11Misc9x,  Bold,    18>>,
       <<<<"1","0","x","2","0">>,   X11Misc10x, Regular, 20>>,
       <<<<"1","2","x","2","4">>,   X11Misc12x, Regular, 24>> >>

MISC_MAP ==
    << <<<<"4","x","6">>,           X11Misc5x,  Regular, 6>>,
       <<<<"5","x","7">>,           X11Misc5x,  Regular, 7>>,
       <<<<"5","x","8">>,           X11Misc5x,  Regular, 8>>,
       <<<<"6","x","9">>,           X11Misc6x,  Regular, 9>>,
       <<<<"6","x","1","0">>,       X11Misc6x,  Regular, 10>>,
       <<<<"6","x","1","2">>,       X11Misc6x,  Regular, 12>>,
       <<<<"6","x","1","3">>,       X11Misc6x,  Regular, 13>>,
       <<<<"6","x","1","3","B">>,   X11Misc6x,  Bold,    13>>,
       <<<<"6","x","1","3","O">>,   X11Misc6x,  Oblique, 13>>,
       <<<<"7","x","1","3">>,       X11Misc7x,  Regular, 13>>,
       <<<<"7","x","1","3","B">>,   X11Misc7x,  Bold,    13>>,
       <<<<"7","x","1","3","O">>,   X11Misc7x,  Oblique, 13>>,
       <<<<"7","x","1","4">>,       X11Misc7x,  Regular, 14>>,
       <<<<"7","x","1","4","B">>,   X11Misc7x,  Bold,    14>>,
       <<<<"8","x","1","3">>,       X11Misc8x,  Regular, 13>>,
       <<<<"8","x","1","3","B">>,   X11Misc8x,  Bold,    13>>,
       <<<<"8","x","1","3","O">>,   X11Misc8x,  Oblique, 13>>,
       <<<<"8","x","1","6">>,       X11Misc8x,  Regular, 16>>,
       <<<<"9","x","1","5">>,       X11Misc9x,  Regular, 15>>,
       <<<<"9","x","1","5","B">>,   X11Misc9x,  Bold,    15>>,
       <<<<"9","x","1","8">>,       X11Misc9x,  Regular, 18>>,
       <<<<"9","x","1","8","B">>,   X11Misc9x,  Bold,    18>>,
       <<<<"1","0","x","2","0">>,   X11Misc10x, Regular, 20>>,
       <<<<"1","2","x","2","4">>,   X11Misc12x, Regular, 24>> >>

\* ------------------------------------------------- classify_proportional
\* PROPORTIONAL.keys(), in the dict's insertion order.
ProportionalKeys == [i \in DOMAIN PROPORTIONAL |-> PROPORTIONAL[i][1]]

\* list.insert for a stable descending sort: k goes after every element that
\* is at least as long.
RECURSIVE InsertByLenDesc(_, _)
InsertByLenDesc(sorted, k) ==
    IF sorted = <<>> THEN <<k>>
    ELSE IF Len(Head(sorted)) >= Len(k)
         THEN <<Head(sorted)>> \o InsertByLenDesc(Tail(sorted), k)
         ELSE <<k>> \o sorted

RECURSIVE SortByLenDesc(_)
SortByLenDesc(keys) ==
    IF keys = <<>> THEN <<>>
    ELSE InsertByLenDesc(SortByLenDesc(SubSeq(keys, 1, Len(keys) - 1)),
                         keys[Len(keys)])

\* The keys tried in the dict's order, without the sort.
SortedPrefixes_Unsorted == ProportionalKeys

\* sorted(PROPORTIONAL.keys(), key=len, reverse=True)
SortedPrefixes == SortByLenDesc(ProportionalKeys)

\* PROPORTIONAL[prefix]
ProportionalAt(prefix) ==
    LET i == CHOOSE j \in DOMAIN PROPORTIONAL : PROPORTIONAL[j][1] = prefix
    IN  << PROPORTIONAL[i][2], PROPORTIONAL[i][3] >>

RECURSIVE FirstMatch(_, _)
FirstMatch(prefixes, b) ==
    IF prefixes = <<>> THEN None
    ELSE IF StartsWith(b, Head(prefixes)) THEN ProportionalAt(Head(prefixes))
    ELSE FirstMatch(Tail(prefixes), b)

classify_proportional(b) == FirstMatch(SortedPrefixes, b)

\* ------------------------------------------------------------ exclusions
\* The test of line 142 with the '-KOI8' operand left out.
HasCharsetMarker_NoKoi8(b) ==
    \/ Contains(b, <<"-","I","S","O","8","8","5","9">>)
    \/ Contains(b, <<"-","J","I","S","X">>)

\* '-ISO8859' in basename or '-KOI8' in basename or '-JISX' in basename
HasCharsetMarker(b) ==
    \/ Contains(b, <<"-","I","S","O","8","8","5","9">>)
    \/ Contains(b, <<"-","K","O","I","8">>)
    \/ Contains(b, <<"-","J","I","S","X">>)

\* any(basename.startswith(p) for p in MISC_SKIP_PREFIXES)
HasSkipPrefix(b) ==
    \E i \in DOMAIN MISC_SKIP_PREFIXES : StartsWith(b, MISC_SKIP_PREFIXES[i])

\* basename in MISC_MAP
InMiscMap(b) == \E i \in DOMAIN MISC_MAP : MISC_MAP[i][1] = b

\* MISC_MAP[basename]: (family, style, px)
MiscMapAt(b) ==
    LET i == CHOOSE j \in DOMAIN MISC_MAP : MISC_MAP[j][1] = b
    IN  << MISC_MAP[i][2], MISC_MAP[i][3], MISC_MAP[i][4] >>

\* ------------------------------------------------- intermediate BDF files
\* f"{basename}_{dpi}dpi.bdf" in the scratch directory
DpiStr(dpi) == IF dpi = 75 THEN <<"7","5">> ELSE <<"1","0","0">>

PropBdfPath(b, dpi) == b \o <<"_">> \o DpiStr(dpi) \o <<"d","p","i",".","b","d","f">>

\* f"misc_{basename}.bdf" in the scratch directory
MiscBdfPath(b) == <<"m","i","s","c","_">> \o b \o <<".","b","d","f">>

\* A BDF file is its lines; a line is its whitespace-separated fields.
BdfFile(lines) == [exists |-> TRUE, lines |-> lines]

\* No file at bdf_path.
Absent == [exists |-> FALSE, lines |-> << >>]

PixelSizeLine(n) == << "PIXEL_SIZE", n >>

\* What the two os.system calls can leave at bdf_path.  Their exit status is
\* not looked at.  A conversion that worked leaves a header (with or without
\* a PIXEL_SIZE property) followed by the glyphs; one that failed leaves an
\* empty file (the output was opened, nothing written) or no file at all
\* (pcf2bdf did not start, or stopped before it opened its output).
BdfOutcomes ==
    { [conv |-> "ok",
       bdf  |-> BdfFile(<< <<"FONT">>, PixelSizeLine(n), <<"STARTCHAR">> >>)] :
          n \in 1..MaxPx }
      \cup { [conv |-> "ok",
              bdf  |-> BdfFile(<< <<"FONT">>, <<"STARTCHAR">>, PixelSizeLine(1) >>)],
             [conv |-> "failed", bdf |-> BdfFile(<< >>)],
             [conv |-> "failed", bdf |-> Absent] }

\* get_pixel_size on the lines of an opened file
RECURSIVE ScanPixelSize(_)
ScanPixelSize(lines) ==
    IF lines = <<>> THEN 0
    ELSE IF Head(lines)[1] = "PIXEL_SIZE" THEN Head(lines)[2]
    ELSE IF Head(lines)[1] = "STARTCHAR" THEN 0
    ELSE ScanPixelSize(Tail(lines))

\* get_pixel_size: open() raises when there is no file
get_pixel_size(bdf) ==
    IF ~ bdf.exists THEN [raised |-> TRUE, px |-> 0]
    ELSE [raised |-> FALSE, px |-> ScanPixelSize(bdf.lines)]

\* ---------------------------------------------------------------- groups
EmptyGroups == [k \in {} |-> <<>>]

\* groups[(family, style)].append(entry) on a defaultdict(list)
GroupAppend(groups, key, entry) ==
    [k \in DOMAIN groups \cup {key} |->
        IF k = key
        THEN (IF key \in DOMAIN groups THEN groups[key] ELSE <<>>) \o <<entry>>
        ELSE groups[k]]

\* dict.update
DictUpdate(d, other) ==
    [k \in DOMAIN d \cup DOMAIN other |->
        IF k \in DOMAIN other THEN other[k] ELSE d[k]]

\* tuple comparison of two (family, style) keys
KeyLess(a, b) ==
    \/ StrLess(a[1], b[1])
    \/ a[1] = b[1] /\ StrLess(a[2], b[2])

\* sorted(all_groups.items()): the keys are distinct, so they decide the order
RECURSIVE SortedKeys(_)
SortedKeys(S) ==
    IF S = {} THEN <<>>
    ELSE LET m == CHOOSE x \in S : \A y \in S \ {x} : KeyLess(x, y)
         IN  <<m>> \o SortedKeys(S \ {m})

\* sorted(font_dir.glob("*.pcf.gz")): paths of one directory, by name
RECURSIVE SortedFiles(_)
SortedFiles(S) ==
    IF S = {} THEN <<>>
    ELSE LET m == CHOOSE x \in S : \A y \in S \ {x} : StrLess(x, y)
         IN  <<m>> \o SortedFiles(S \ {m})

\* ------------------------------------------------------------ build_font
\* An entry is (pixel_size, bdf_path).
RECURSIVE InsertByPx(_, _)
InsertByPx(sorted, e) ==
    IF sorted = <<>> THEN <<e>>
    ELSE IF Head(sorted)[1] <= e[1]
         THEN <<Head(sorted)>> \o InsertByPx(Tail(sorted), e)
         ELSE <<e>> \o sorted

\* bdf_entries.sort(key=lambda x: x[0]): ascending and stable
RECURSIVE SortEntries(_)
SortEntries(entries) ==
    IF entries = <<>> THEN <<>>
    ELSE InsertByPx(SortEntries(SubSeq(entries, 1, Len(entries) - 1)),
                    entries[Len(entries)])

\* The loop of lines 200-205 keeping the last occurrence of a size.
RECURSIVE Deduplicate_KeepLast(_, _)
Deduplicate_KeepLast(entries, seen_px) ==
    IF entries = <<>> THEN <<>>
    ELSE IF \E i \in 2..Len(entries) : entries[i][1] = Head(entries)[1]
         THEN Deduplicate_KeepLast(Tail(entries), seen_px)
         ELSE <<Head(entries)>> \o Deduplicate_KeepLast(Tail(entries), seen_px)

\* The loop of lines 200-205 without the seen_px test.
Deduplicate_KeepAll(entries, seen_px) == entries

\* The loop of lines 200-205: keep the first occurrence of each pixel size.
RECURSIVE Deduplicate(_, _)
Deduplicate(entries, seen_px) ==
    IF entries = <<>> THEN <<>>
    ELSE IF Head(entries)[1] \notin seen_px
         THEN <<Head(entries)>> \o
              Deduplicate(Tail(entries), seen_px \cup {Head(entries)[1]})
         ELSE Deduplicate(Tail(entries), seen_px)

\* Lines 197-206: the build group of a collected list.
BuildGroup(entries) == Deduplicate(SortEntries(entries), {})

\* round(n / d) for d > 0, truncating the quotient instead.
PyRound_Floor(n, d) == n \div d

\* round(n / d) for d > 0: to the nearest integer, a tie to the even one.
PyRound(n, d) ==
    LET q == n \div d
        r == n % d
    IN  IF 2 * r < d THEN q
        ELSE IF 2 * r > d THEN q + 1
        ELSE IF q % 2 = 0 THEN q ELSE q + 1

\* round(glyph.width / scale) * scale
RoundWidth(width, scale) == PyRound(width, scale) * scale

\* f"{family}-{style}.ttf"
TtfName(family, style) == family \o <<"-">> \o style \o <<".","t","t","f">>

\* build_font's locals for a non-empty bdf_entries, up to line 237.
BuildLocals(family, style, entries) ==
    LET unique == BuildGroup(entries)
        largest_px == unique[Len(unique)][1]
        em == largest_px * 100
    IN  [ key      |-> << family, style >>,
          input    |-> entries,
          unique   |-> unique,
          smallest |-> unique[1],
          largest  |-> unique[Len(unique)],
          em       |-> em,
          scale    |-> em \div largest_px ]

\* ------------------------------------------------------------ environment
\* Files that may be installed in /usr/share/fonts/X11/{75,100}dpi.
PropFiles ==
    { <<"h","e","l","v","B","0","8",".","p","c","f",".","g","z">>,
      <<"h","e","l","v","B","1","0",".","p","c","f",".","g","z">>,
      <<"h","e","l","v","B","O","0","8",".","p","c","f",".","g","z">>,
      <<"h","e","l","v","B","0","8","-","I","S","O","8","8","5","9","-","1",".","p","c","f",".","g","z">>,
      <<"c","o","u","r","R","0","8",".","p","c","f",".","g","z">> }

\* Files that may be installed in /usr/share/fonts/X11/misc.
MiscFiles ==
    { <<"6","x","1","0",".","p","c","f",".","g","z">>,
      <<"6","x","1","3",".","p","c","f",".","g","z">>,
      <<"6","x","1","3","B",".","p","c","f",".","g","z">>,
      <<"6","x","1","3","-","K","O","I","8","-","R",".","p","c","f",".","g","z">>,
      <<"7","x","1","4","-","J","I","S","X","0","2","0","1",".","1","9","7","6","-","0",".","p","c","f",".","g","z">>,
      <<"c","u","r","s","o","r",".","p","c","f",".","g","z">> }

Dpis == << 75, 100 >>

IdleLast  == [step |-> "idle", conv |-> "none", px |-> 0, entry |-> None]

IdleBuild ==
    [ outcome |-> "idle", ttf |-> <<>>, key |-> <<>>, input |-> <<>>, unique |-> <<>>,
      smallest |-> <<>>, largest |-> <<>>, em |-> 0, scale |-> 0 ]

IdleGlyph == [before |-> 0, width |-> 0]

DirExists == tempCreated > tempRemoved

\* ------------------------------------------------------------------- main
Init ==
    /\ pc = "main"
    /\ TEMP_DIR = "None"
    /\ tempCreated = 0
    /\ tempRemoved = 0
    /\ tempFiles = {}
    /\ dpiIdx = 0
    /\ pending = <<>>
    /\ filesSeen = 0
    /\ prop_groups = EmptyGroups
    /\ misc_groups = EmptyGroups
    /\ all_groups = EmptyGroups
    /\ queue = <<>>
    /\ attempted = <<>>
    /\ results = <<>>
    /\ failed = {}
    /\ last = IdleLast
    /\ build = IdleBuild
    /\ glyph = IdleGlyph
    /\ basename = <<>>
    /\ result = None

\* Lines 297-303: mkdtemp, OUTPUT_DIR.mkdir, entry into collect_proportional_fonts.
MkTemp ==
    /\ pc = "main"
    /\ TEMP_DIR' = "x11font_"
    /\ tempCreated' = tempCreated + 1
    /\ dpiIdx' = 1
    /\ pc' = "prop_dir"
    /\ UNCHANGED failed
    /\ UNCHANGED <<tempRemoved, tempFiles, pending, filesSeen, prop_groups,
                    misc_groups, all_groups, queue, attempted, results, last,
                    build, glyph, basename, result >>

\* Lines 135-138: the directory of this dpi does not exist.
PropDirMissing ==
    /\ pc = "prop_dir"
    /\ dpiIdx <= Len(Dpis)
    /\ dpiIdx' = dpiIdx + 1
    /\ UNCHANGED failed
    /\ UNCHANGED <<pc, TEMP_DIR, tempCreated, tempRemoved, tempFiles, pending,
                    filesSeen, prop_groups, misc_groups, all_groups, queue,
                    attempted, results, last, build, glyph, basename, result >>

\* Lines 135-140: the directory exists and holds the files S.
PropDirOpen ==
    /\ pc = "prop_dir"
    /\ dpiIdx <= Len(Dpis)
    /\ \E S \in SUBSET PropFiles :
          /\ Cardinality(S) <= MaxFiles - filesSeen
          /\ pending' = SortedFiles(S)
          /\ filesSeen' = filesSeen + Cardinality(S)
    /\ pc' = "prop_files"
    /\ UNCHANGED failed
    /\ UNCHANGED <<TEMP_DIR, tempCreated, tempRemoved, tempFiles, dpiIdx,
                    prop_groups, misc_groups, all_groups, queue, attempted,
                    results, failed, last, build, glyph, basename, result >>

\* Lines 141-154: one iteration of the inner loop of collect_proportional_fonts.
PropFile ==
    /\ pc = "prop_files"
    /\ pending # <<>>
    /\ LET b == Basename(Head(pending))
       IN  /\ basename' = b
           /\ pending' = Tail(pending)
           /\ IF HasCharsetMarker(b)
              THEN /\ last' = [IdleLast EXCEPT !.step = "excluded"]
                   /\ UNCHANGED << pc, result, tempFiles, prop_groups >>
              ELSE LET r == classify_proportional(b)
                   IN  /\ result' = r
                       /\ IF r = None
                          THEN /\ last' = [IdleLast EXCEPT !.step = "no_match"]
                               /\ UNCHANGED << pc, tempFiles, prop_groups >>
                          ELSE \E o \in BdfOutcomes :
                                 LET bdf_path == PropBdfPath(b, Dpis[dpiIdx])
                                     got == get_pixel_size(o.bdf)
                                     entry == << got.px, bdf_path >>
                                 IN  /\ tempFiles' = IF ~ o.bdf.exists
                                                     THEN tempFiles
                                                     ELSE tempFiles \cup {bdf_path}
                                     /\ IF got.raised
                                        THEN /\ pc' = "aborted"
                                             /\ last' = [step |-> "raised", conv |-> o.conv,
                                                         px |-> 0, entry |-> None]
                                             /\ UNCHANGED prop_groups
                                        ELSE IF got.px > 0
                                        THEN /\ prop_groups' = GroupAppend(prop_groups, r, entry)
                                             /\ last' = [step |-> "added", conv |-> o.conv,
                                                         px |-> got.px, entry |-> << r, entry >>]
                                             /\ UNCHANGED pc
                                        ELSE /\ last' = [step |-> "unresolved", conv |-> o.conv,
                                                         px |-> got.px, entry |-> None]
                                             /\ UNCHANGED << pc, prop_groups >>
    /\ UNCHANGED failed
    /\ UNCHANGED <<TEMP_DIR, tempCreated, tempRemoved, dpiIdx, filesSeen,
                    misc_groups, all_groups, queue, attempted, results, build, glyph >>

\* Line 140: the inner loop is exhausted; next dpi.
PropDirDone ==
    /\ pc = "prop_files"
    /\ pending = <<>>
    /\ dpiIdx' = dpiIdx + 1
    /\ pc' = "prop_dir"
    /\ UNCHANGED failed
    /\ UNCHANGED <<TEMP_DIR, tempCreated, tempRemoved, tempFiles, pending,
                    filesSeen, prop_groups, misc_groups, all_groups, queue,
                    attempted, results, last, build, glyph, basename, result >>

\* Lines 156, 305-306: return groups; entry into collect_misc_fonts.
PropReturn ==
    /\ pc = "prop_dir"
    /\ dpiIdx > Len(Dpis)
    /\ pc' = "misc_dir"
    /\ UNCHANGED failed
    /\ UNCHANGED <<TEMP_DIR, tempCreated, tempRemoved, tempFiles, dpiIdx, pending,
                    filesSeen, prop_groups, misc_groups, all_groups, queue,
                    attempted, results, last, build, glyph, basename, result >>

\* Lines 162-164: the misc directory does not exist; return the empty groups.
MiscDirMissing ==
    /\ pc = "misc_dir"
    /\ pc' = "merge"
    /\ UNCHANGED failed
    /\ UNCHANGED <<TEMP_DIR, tempCreated, tempRemoved, tempFiles, dpiIdx, pending,
                    filesSeen, prop_groups, misc_groups, all_groups, queue,
                    attempted, results, last, build, glyph, basename, result >>

\* Lines 162-166: the misc directory exists and holds the files S.
MiscDirOpen ==
    /\ pc = "misc_dir"
    /\ \E S \in SUBSET MiscFiles :
          /\ Cardinality(S) <= MaxFiles - filesSeen
          /\ pending' = SortedFiles(S)
          /\ filesSeen' = filesSeen + Cardinality(S)
    /\ pc' = "misc_files"
    /\ UNCHANGED failed
    /\ UNCHANGED <<TEMP_DIR, tempCreated, tempRemoved, tempFiles, dpiIdx,
                    prop_groups, misc_groups, all_groups, queue, attempted,
                    results, failed, last, build, glyph, basename, result >>

\* Lines 179-181 with the header value always taken.
MiscPx_HeaderAlways(px, actual_px) == actual_px

\* Lines 179-181: a resolved header value overrides MISC_MAP's.
MiscPx(px, actual_px) == IF actual_px > 0 THEN actual_px ELSE px

\* Lines 167-182: one iteration of the loop of collect_misc_fonts.
MiscFile ==
    /\ pc = "misc_files"
    /\ pending # <<>>
    /\ LET b == Basename(Head(pending))
       IN  /\ basename' = b
           /\ pending' = Tail(pending)
           /\ IF HasCharsetMarker(b)
              THEN /\ last' = [IdleLast EXCEPT !.step = "excluded"]
                   /\ UNCHANGED << pc, tempFiles, misc_groups >>
              ELSE IF HasSkipPrefix(b)
              THEN /\ last' = [IdleLast EXCEPT !.step = "skip_prefix"]
                   /\ UNCHANGED << pc, tempFiles, misc_groups >>
              ELSE IF ~ InMiscMap(b)
              THEN /\ last' = [IdleLast EXCEPT !.step = "no_match"]
                   /\ UNCHANGED << pc, tempFiles, misc_groups >>
              ELSE \E o \in BdfOutcomes :
                     LET m == MiscMapAt(b)
                         key == << m[1], m[2] >>
                         bdf_path == MiscBdfPath(b)
                         got == get_pixel_size(o.bdf)
                         entry == << MiscPx(m[3], got.px), bdf_path >>
                     IN  /\ tempFiles' = IF ~ o.bdf.exists
                                         THEN tempFiles
                                         ELSE tempFiles \cup {bdf_path}
                         /\ IF got.raised
                            THEN /\ pc' = "aborted"
                                 /\ last' = [step |-> "raised", conv |-> o.conv,
                                             px |-> 0, entry |-> None]
                                 /\ UNCHANGED misc_groups
                            ELSE /\ misc_groups' = GroupAppend(misc_groups, key, entry)
                                 /\ last' = [step |-> "added", conv |-> o.conv,
                                             px |-> got.px, entry |-> << key, entry >>]
                                 /\ UNCHANGED pc
    /\ UNCHANGED failed
    /\ UNCHANGED <<TEMP_DIR, tempCreated, tempRemoved, dpiIdx, filesSeen,
                    prop_groups, all_groups, queue, attempted, results, build,
                    glyph, result >>

\* Lines 184, 308-314: return groups; merge; start of the build loop.
Merge ==
    /\ pc \in {"misc_files", "merge"}
    /\ pending = <<>>
    /\ all_groups' = DictUpdate(DictUpdate(EmptyGroups, prop_groups), misc_groups)
    /\ queue' = SortedKeys(DOMAIN all_groups')
    /\ results' = <<>>
    /\ pc' = "build"
    /\ UNCHANGED failed
    /\ UNCHANGED <<TEMP_DIR, tempCreated, tempRemoved, tempFiles, dpiIdx, pending,
                    filesSeen, prop_groups, misc_groups, attempted, last, build,
                    glyph, basename, result >>

\* Lines 322-323 re-raising instead of logging.
AfterBuildError_Reraise == "aborted"

\* Lines 322-323: the exception is printed; the loop goes on.
AfterBuildError == "build"

\* bdf_entries.sort() sorts the list object that the dicts hold.
SortedInPlace(groups, key) ==
    IF key \in DOMAIN groups
    THEN [groups EXCEPT ![key] = SortEntries(@)]
    ELSE groups

\* Lines 314-323: one iteration of the build loop, build_font included.  The
\* font object is local to build_font and closed before it returns; main
\* sees the file name or the exception.
BuildStep ==
    /\ pc = "build"
    /\ queue # <<>>
    /\ LET key == Head(queue)
           entries == all_groups[key]
       IN  /\ queue' = Tail(queue)
           /\ attempted' = Append(attempted, key)
           /\ IF entries = <<>>
              THEN /\ build' = [IdleBuild EXCEPT !.outcome = "none", !.key = key]
                   /\ UNCHANGED << pc, results, failed, all_groups, prop_groups,
                                   misc_groups >>
              ELSE LET loc == BuildLocals(key[1], key[2], entries)
                       ttf_name == TtfName(key[1], key[2])
                   IN  /\ all_groups' = SortedInPlace(all_groups, key)
                       /\ misc_groups' = SortedInPlace(misc_groups, key)
                       /\ prop_groups' = IF key \in DOMAIN misc_groups
                                         THEN prop_groups
                                         ELSE SortedInPlace(prop_groups, key)
                       /\ \/ /\ DirExists
                             /\ \A i \in DOMAIN loc.unique : loc.unique[i][2] \in tempFiles
                             /\ build' = loc @@ [outcome |-> "ttf", ttf |-> ttf_name]
                             /\ results' = Append(results, ttf_name)
                             /\ UNCHANGED << pc, failed >>
                          \/ /\ build' = loc @@ [outcome |-> "raised", ttf |-> <<>>]
                             /\ failed' = failed \cup {key}
                             /\ pc' = AfterBuildError
                             /\ UNCHANGED results
    /\ UNCHANGED <<TEMP_DIR, tempCreated, tempRemoved, tempFiles, dpiIdx, pending,
                    filesSeen, last, glyph, basename, result >>

\* The loop of lines 314-323 left at its first iteration.
LoopExhausted_Early == TRUE

\* Line 314: the build loop has visited every item.
LoopExhausted == queue = <<>>

\* Lines 325-331: rmtree of the scratch directory, then the summary.
Cleanup ==
    /\ pc = "build"
    /\ LoopExhausted
    /\ DirExists
    /\ tempRemoved' = tempRemoved + 1
    /\ tempFiles' = {}
    /\ pc' = "done"
    /\ UNCHANGED failed
    /\ UNCHANGED <<TEMP_DIR, tempCreated, dpiIdx, pending, filesSeen, prop_groups,
                    misc_groups, all_groups, queue, attempted, results, last,
                    build, glyph, basename, result >>

Next ==
    \/ MkTemp
    \/ PropDirMissing
    \/ PropDirOpen
    \/ PropFile
    \/ PropDirDone
    \/ PropReturn
    \/ MiscDirMissing
    \/ MiscDirOpen
    \/ MiscFile
    \/ Merge
    \/ BuildStep
    \/ Cleanup

Spec == Init /\ [][Next]_vars

\* ------------------------------------- classify_proportional on its own
\* Every key of PROPORTIONAL, every beginning of a key, and a foreign stem.
Stems ==
    UNION { { SubSeq(ProportionalKeys[i], 1, n) : n \in 0..Len(ProportionalKeys[i]) } :
               i \in DOMAIN ProportionalKeys }
      \cup { <<"c","o","u","r">> }

SuffixChars == { "B", "O", "I", "S", "0" }

RECURSIVE Suffixes(_)
Suffixes(n) ==
    IF n = 0 THEN { <<>> }
    ELSE LET shorter == Suffixes(n - 1)
         IN  shorter \cup { Append(s, c) : s \in shorter, c \in SuffixChars }

BasenameInputs == { stem \o s : stem \in Stems, s \in Suffixes(MaxSuffix) }

NoRun ==
    /\ TEMP_DIR = "None"
    /\ tempCreated = 0
    /\ tempRemoved = 0
    /\ tempFiles = {}
    /\ dpiIdx = 0
    /\ pending = <<>>
    /\ filesSeen = 0
    /\ prop_groups = EmptyGroups
    /\ misc_groups = EmptyGroups
    /\ all_groups = EmptyGroups
    /\ queue = <<>>
    /\ attempted = <<>>
    /\ results = <<>>
    /\ failed = {}
    /\ last = IdleLast

InitClassify ==
    /\ pc = "classify_call"
    /\ basename \in BasenameInputs
    /\ result = None
    /\ build = IdleBuild
    /\ glyph = IdleGlyph
    /\ NoRun

\* Lines 122-128: a call of classify_proportional(basename).
ClassifyCall ==
    /\ pc = "classify_call"
    /\ result' = classify_proportional(basename)
    /\ pc' = "classify_return"
    /\ UNCHANGED failed
    /\ UNCHANGED <<TEMP_DIR, tempCreated, tempRemoved, tempFiles, dpiIdx, pending,
                    filesSeen, prop_groups, misc_groups, all_groups, queue,
                    attempted, results, last, build, glyph, basename >>

NextClassify == ClassifyCall

SpecClassify == InitClassify /\ [][NextClassify]_vars

\* ------------------------------------------------- build_font on its own
\* The sources of the group (X11Helv, Bold), in the order the collector
\* visits them: 75dpi before 100dpi, file names ascending.
HelvBoldSources ==
    << PropBdfPath(<<"h","e","l","v","B","0","8">>, 75),
       PropBdfPath(<<"h","e","l","v","B","1","0">>, 75),
       PropBdfPath(<<"h","e","l","v","B","0","8">>, 100),
       PropBdfPath(<<"h","e","l","v","B","1","0">>, 100) >>

\* The entries appended for the sources whose pixel size px[i] is resolved.
RECURSIVE CollectedEntries(_, _)
CollectedEntries(px, i) ==
    IF i > Len(HelvBoldSources) THEN <<>>
    ELSE (IF px[i] > 0 THEN << << px[i], HelvBoldSources[i] >> >> ELSE <<>>)
         \o CollectedEntries(px, i + 1)

BuildInputs ==
    { CollectedEntries(px, 1) : px \in [DOMAIN HelvBoldSources -> 0..MaxPx] } \ { <<>> }

InitBuild ==
    /\ pc = "build_font_call"
    /\ build \in { [IdleBuild EXCEPT !.outcome = "call", !.key = << X11Helv, Bold >>,
                                     !.input = e] : e \in BuildInputs }
    /\ glyph \in { [before |-> w, width |-> w] : w \in (-MaxWidth)..MaxWidth }
    /\ basename = <<>>
    /\ result = None
    /\ NoRun

\* Lines 187-293: a call of build_font(family, style, bdf_entries) that
\* returns; glyph is one of font.glyphs() after autoTrace.
BuildFontCall ==
    /\ pc = "build_font_call"
    /\ LET loc == BuildLocals(build.key[1], build.key[2], build.input)
       IN  /\ build' = loc @@ [outcome |-> "ttf",
                               ttf |-> TtfName(build.key[1], build.key[2])]
           /\ glyph' = [before |-> glyph.width,
                        width  |-> RoundWidth(glyph.width, loc.scale)]
    /\ pc' = "build_font_return"
    /\ UNCHANGED failed
    /\ UNCHANGED <<TEMP_DIR, tempCreated, tempRemoved, tempFiles, dpiIdx, pending,
                    filesSeen, prop_groups, misc_groups, all_groups, queue,
                    attempted, results, last, basename, result >>

NextBuild == BuildFontCall

SpecBuild == InitBuild /\ [][NextBuild]_vars

\* ================================================================ claims
Range(s) == { s[i] : i \in DOMAIN s }

GroupEntries(groups) == UNION { Range(groups[k]) : k \in DOMAIN groups }

PropKeys == { << PROPORTIONAL[i][2], PROPORTIONAL[i][3] >> : i \in DOMAIN PROPORTIONAL }

MiscKeys == { << MISC_MAP[i][2], MISC_MAP[i][3] >> : i \in DOMAIN MISC_MAP }

\* ------------------------------------------------------------------- C1
MatchingKeys(b) == { i \in DOMAIN PROPORTIONAL : StartsWith(b, PROPORTIONAL[i][1]) }

LongestKeyEntry(b) ==
    IF MatchingKeys(b) = {} THEN None
    ELSE LET i == CHOOSE m \in MatchingKeys(b) :
                     \A j \in MatchingKeys(b) :
                        Len(PROPORTIONAL[j][1]) <= Len(PROPORTIONAL[m][1])
         IN  << PROPORTIONAL[i][2], PROPORTIONAL[i][3] >>

\* (longer key, key that is or resembles its beginning)
ShadowedKeys ==
    { << <<"h","e","l","v","B","O">>, <<"h","e","l","v","B">> >>,
      << <<"l","u","B","I","S">>,     <<"l","u","B","S">> >>,
      << <<"l","u","b","B","I">>,     <<"l","u","b","B">> >>,
      << <<"t","e","r","m","B">>,     <<"t","e","r","m">> >> }

\* C1: for every basename classify_proportional returns the (family, style)
\* of the longest key of PROPORTIONAL that is a prefix of it, None when no
\* key is a prefix; a basename that starts with 'helvBO', 'luBIS', 'lubBI'
\* or 'termB' never gets the entry of 'helvB', 'luBS', 'lubB' or 'term'.
C1_LongestPrefixWins ==
    pc = "classify_return" =>
       /\ result = LongestKeyEntry(basename)
       /\ \A p \in ShadowedKeys :
             StartsWith(basename, p[1]) => result # ProportionalAt(p[2])

C1_Witness ==
    /\ pc = "classify_return"
    /\ basename = <<"h","e","l","v","B","O","0">>
    /\ result = << X11Helv, BoldOblique >>

\* ------------------------------------------------------------------- C2
Markers ==
    { <<"-","I","S","O","8","8","5","9">>, <<"-","K","O","I","8">>, <<"-","J","I","S","X">> }

NamesCharset(s) ==
    \E m \in Markers : \E i \in 1..Len(s) :
        /\ i + Len(m) - 1 <= Len(s)
        /\ SubSeq(s, i, i + Len(m) - 1) = m

\* C2: in both collectors a resource whose basename contains '-ISO8859',
\* '-KOI8' or '-JISX' is skipped before it is classified or converted and
\* is in no group, whatever prefix or MISC_MAP key it would match.
C2_CharsetResourcesExcluded ==
    /\ NamesCharset(basename) =>
          /\ last.step = "excluded"
          /\ last.conv = "none"
          /\ last.entry = None
    /\ \A p \in tempFiles : ~ NamesCharset(p)
    /\ \A e \in GroupEntries(prop_groups) \cup GroupEntries(misc_groups)
                  \cup GroupEntries(all_groups) : ~ NamesCharset(e[2])

C2_Witness ==
    /\ pc = "prop_files"
    /\ basename = <<"h","e","l","v","B","0","8","-","I","S","O","8","8","5","9","-","1">>
    /\ classify_proportional(basename) = << X11Helv, Bold >>
    /\ last.step = "excluded"
    /\ prop_groups # EmptyGroups

\* ------------------------------------------------------------------- C3
StrictlyAscendingKeys(s) == \A i, j \in DOMAIN s : i < j => KeyLess(s[i], s[j])

RECURSIVE NamesOfBuilt(_, _)
NamesOfBuilt(keys, bad) ==
    IF keys = <<>> THEN <<>>
    ELSE (IF Head(keys) \in bad THEN <<>> ELSE << TtfName(Head(keys)[1], Head(keys)[2]) >>)
         \o NamesOfBuilt(Tail(keys), bad)

\* C3: whichever build_font calls raise, the build loop visits every group
\* of all_groups exactly once in ascending key order, results holds the
\* names of exactly the groups that did not raise, and the run goes on to
\* its summary: a raise never ends the run.
C3_FailedGroupIsSkipped ==
    /\ build.outcome = "raised" => pc \in {"build", "done"}
    /\ pc \in {"build", "done"} =>
          /\ StrictlyAscendingKeys(attempted \o queue)
          /\ Range(attempted \o queue) = DOMAIN all_groups
          /\ failed \subseteq Range(attempted)
          /\ results = NamesOfBuilt(attempted, failed)
    /\ pc = "build" => ENABLED (BuildStep \/ Cleanup)
    /\ pc = "done" => queue = <<>>

C3_Witness ==
    /\ pc = "done"
    /\ Len(attempted) = 2
    /\ failed = { attempted[1] }
    /\ results = << TtfName(attempted[2][1], attempted[2][2]) >>

\* ------------------------------------------------------------------- C4
\* C4: a failed gunzip/pcf2bdf never ends the run; get_pixel_size gives 0
\* for what it left behind and collection goes on.
C4_FailedConversionReadsAsUnresolved ==
    last.conv = "failed" =>
       /\ pc # "aborted"
       /\ last.step # "raised"
       /\ last.px = 0

C6_DedupIdempotent ==
    pc = "build_font_return" =>
       /\ \A i, j \in DOMAIN build.unique :
             i < j => build.unique[i][1] < build.unique[j][1]
       /\ BuildGroup(build.unique) = build.unique

C6_Witness ==
    /\ pc = "build_font_return"
    /\ Len(build.input) = 4
    /\ build.input[1][1] > build.input[2][1]
    /\ Len(build.unique) = 2

\* ------------------------------------------------------------------- C7
\* Where a BDF path came from: directory (in the order visited) and file.
Sources ==
    { [ord |-> 1, file |-> f, path |-> PropBdfPath(SubSeq(f, 1, Len(f) - Len(PcfGz)), 75)] :
          f \in PropFiles }
    \cup
    { [ord |-> 2, file |-> f, path |-> PropBdfPath(SubSeq(f, 1, Len(f) - Len(PcfGz)), 100)] :
          f \in PropFiles }
    \cup
    { [ord |-> 3, file |-> f, path |-> MiscBdfPath(SubSeq(f, 1, Len(f) - Len(PcfGz)))] :
          f \in MiscFiles }

SourceOf(path) == CHOOSE s \in Sources : s.path = path

CollectedBefore(p, q) ==
    \/ SourceOf(p).ord < SourceOf(q).ord
    \/ SourceOf(p).ord = SourceOf(q).ord /\ StrLess(SourceOf(p).file, SourceOf(q).file)

\* C7: in a build the largest member has a pixel size >= and the smallest a
\* pixel size <= that of every entry; of the entries of one pixel size the
\* build group keeps the one collected first (75dpi before 100dpi, then by
\* file name).
C7_ExtremesAndFirstCollectedKept ==
    build.outcome \in {"ttf", "raised"} =>
       /\ build.smallest \in Range(build.unique)
       /\ build.largest \in Range(build.unique)
       /\ \A e \in Range(build.input) \cup Range(build.unique) :
             build.smallest[1] <= e[1] /\ e[1] <= build.largest[1]
       /\ \A i, j \in DOMAIN build.input :
             i < j => CollectedBefore(build.input[i][2], build.input[j][2])
       /\ \A e \in Range(build.input) :
             \E u \in Range(build.unique) :
                /\ u[1] = e[1]
                /\ u \in Range(build.input)
                /\ u = e \/ CollectedBefore(u[2], e[2])

C7_Witness ==
    /\ build.outcome = "ttf"
    /\ Len(build.input) = 2
    /\ build.input[1][1] = build.input[2][1]
    /\ build.unique = << build.input[1] >>
    /\ build.smallest = build.largest
    /\ SourceOf(build.input[1][2]).ord = 1
    /\ SourceOf(build.input[2][2]).ord = 2

\* ------------------------------------------------------------------- C8
\* C8: a misc resource is recorded with its header PIXEL_SIZE when that is
\* > 0 and with MISC_MAP's size otherwise; a proportional resource whose
\* size is unresolved is not added; so every entry of every group has a
\* pixel size > 0, and build_font never gets an empty list.
C8_RecordedPixelSize ==
    /\ last.step = "added" =>
          IF last.px > 0
          THEN last.entry[2][1] = last.px
          ELSE /\ last.entry[1] \in MiscKeys
               /\ \E i \in DOMAIN MISC_MAP :
                     /\ MISC_MAP[i][1] = basename
                     /\ last.entry[2][1] = MISC_MAP[i][4]
    /\ last.step = "unresolved" => last.px <= 0 /\ last.entry = None
    /\ (last.step = "added" /\ last.entry[1] \in PropKeys) => last.px > 0
    /\ \A e \in GroupEntries(prop_groups) \cup GroupEntries(misc_groups)
                  \cup GroupEntries(all_groups) : e[1] > 0
    /\ \A k \in DOMAIN prop_groups : prop_groups[k] # <<>>
    /\ \A k \in DOMAIN misc_groups : misc_groups[k] # <<>>
    /\ \A k \in DOMAIN all_groups : all_groups[k] # <<>>
    /\ build.outcome # "none"
    /\ build.outcome \in {"ttf", "raised"} => build.input # <<>>

C8_Witness ==
    /\ pc = "done"
    /\ last.step = "added"
    /\ last.conv = "failed"
    /\ last.px = 0
    /\ last.entry = << << X11Misc6x, Bold >>,
                       << 13, MiscBdfPath(<<"6","x","1","3","B">>) >> >>
    /\ << X11Helv, Bold >> \in DOMAIN prop_groups
    /\ Len(results) = 2

\* ------------------------------------------------------------------- C9
Abs(n) == IF n < 0 THEN -n ELSE n

\* C9: with em = largest_px * 100 and scale = em // largest_px, the rounded
\* advance width is a multiple of scale at distance at most scale/2 from
\* the width before, and rounding it again changes nothing.
C9_WidthRoundedToNearestMultiple ==
    pc = "build_font_return" =>
       /\ build.em = build.largest[1] * 100
       /\ build.scale * build.largest[1] = build.em
       /\ glyph.width % build.scale = 0
       /\ 2 * Abs(glyph.width - glyph.before) <= build.scale
       /\ RoundWidth(glyph.width, build.scale) = glyph.width

C9_Witness ==
    /\ pc = "build_font_return"
    /\ glyph.before = 150
    /\ glyph.width = 200
    /\ build.scale = 100

\* ------------------------------------------------------------------ C10
\* C10: no key of PROPORTIONAL's values is a key of MISC_MAP's values, so
\* all_groups.update(misc_groups) overwrites nothing: every collected group
\* is in all_groups as collected, is attempted exactly once, and no two
\* groups have the same '{family}-{style}.ttf'.
KeysDisjoint == PropKeys \cap MiscKeys = {}

NamesDistinct ==
    \A k1, k2 \in PropKeys \cup MiscKeys :
        k1 # k2 => TtfName(k1[1], k1[2]) # TtfName(k2[1], k2[2])

C10_MergeLosesNoGroup ==
    /\ KeysDisjoint
    /\ NamesDistinct
    /\ DOMAIN prop_groups \subseteq PropKeys
    /\ DOMAIN misc_groups \subseteq MiscKeys
    /\ pc \in {"build", "done"} =>
          /\ DOMAIN all_groups = DOMAIN prop_groups \cup DOMAIN misc_groups
          /\ \A k \in DOMAIN prop_groups : all_groups[k] = prop_groups[k]
          /\ \A k \in DOMAIN misc_groups : all_groups[k] = misc_groups[k]
          /\ \A i, j \in DOMAIN attempted : i # j => attempted[i] # attempted[j]
          /\ \A i, j \in DOMAIN results : i # j => results[i] # results[j]
    /\ pc = "done" => Range(attempted) = DOMAIN prop_groups \cup DOMAIN misc_groups

C10_Witness ==
    /\ pc = "done"
    /\ DOMAIN prop_groups = { << X11Helv, Bold >> }
    /\ DOMAIN misc_groups = { << X11Misc6x, Bold >> }
    /\ attempted = << << X11Helv, Bold >>, << X11Misc6x, Bold >> >>
    /\ results = << TtfName(X11Helv, Bold), TtfName(X11Misc6x, Bold) >>

=============================================================================
